---- MODULE Spec2Model ----
(***************************************************************************)
(* ArchGuard (analyzer.py): a script that loads a layered-architecture     *)
(* model from architecture.json, classifies every .py file under the       *)
(* working directory into a layer, extracts its imports, records one edge  *)
(* per import, flags the edges the model does not allow, writes a console  *)
(* summary, a JUnit XML file and an HTML report, and exits with 0 or 1.    *)
(*                                                                         *)
(* Paths are sequences of path segments (the last one is the file name),   *)
(* glob patterns are sequences of segment patterns, dotted module names    *)
(* are sequences of identifiers, and Python dicts are sequences of         *)
(* <<key, value>> pairs in insertion order.                                *)
(***************************************************************************)
EXTENDS Integers, Sequences, FiniteSets, TLC

VARIABLES
    doc,           \* the contents of architecture.json (or its absence)
    universe,      \* the files pathlib.Path(".").rglob("*.py") yields, in order
    layers_rules,  \* dict: layer name -> allowed list
    comp_map,      \* dict: folder pattern -> layer
    idx,           \* position of the scan loop in universe
    deps,          \* list of (src_layer, tgt_layer, py.name, imp)
    violations,    \* list of (src_layer, tgt_layer, py.name, imp)
    exit_code,     \* the script's exit_code variable
    stdout,        \* the lines printed so far
    written,       \* the report files written so far, <<name, content>>
    pc,            \* position of the script
    error,         \* the exception that ended the script, or "none"
    status,        \* process exit status: "running", "success", "failure"
    imports,       \* the names extracted from the file last parsed
    qpath,         \* the path last handed to layer_of on its own
    qlayer,        \* the layer returned for qpath
    tree           \* the statement list last handed to the extractor on its own

vars == <<doc, universe, layers_rules, comp_map, idx, deps, violations,
          exit_code, stdout, written, pc, error, status, imports,
          qpath, qlayer, tree>>

harnessVars == <<qpath, qlayer, tree>>

-----------------------------------------------------------------------------
(* Bounds *)

MaxFiles == 2      \* files in the file universe
MaxRules == 3      \* component rules in a generated model document
MaxStmts == 2      \* statements in one statement list of a generated file
MaxDepth == 2      \* nesting depth of compound statements in a generated file

-----------------------------------------------------------------------------
(* Generic helpers *)

Range(s) == {s[i] : i \in 1..Len(s)}

Last(s) == s[Len(s)]

Front(s) == SubSeq(s, 1, Len(s) - 1)

SeqsUpTo(S, n) == UNION {[1..k -> S] : k \in 0..n}

RECURSIVE Concat(_)
Concat(ss) == IF ss = <<>> THEN <<>> ELSE Head(ss) \o Concat(Tail(ss))

Count(s, x) == Cardinality({i \in 1..Len(s) : s[i] = x})

-----------------------------------------------------------------------------
(* Python dict: insertion-ordered; assigning an existing key keeps the     *)
(* key's position and replaces its value.                                  *)

DictHas(d, k) == \E i \in 1..Len(d) : d[i][1] = k

DictGet(d, k, default) ==
    IF DictHas(d, k)
    THEN d[CHOOSE i \in 1..Len(d) : d[i][1] = k][2]
    ELSE default

DictSet(d, k, v) ==
    IF DictHas(d, k)
    THEN [i \in 1..Len(d) |-> IF d[i][1] = k THEN <<k, v>> ELSE d[i]]
    ELSE Append(d, <<k, v>>)

-----------------------------------------------------------------------------
(* Model loading, analyzer.py lines 10-18 *)

\* as LoadError, reading a layer's list with data.get("allowed", [])
LoadError_AllowedOptional(d) ==
    IF d.kind = "missing" THEN "FileNotFoundError"
    ELSE IF d.kind = "malformed" THEN "JSONDecodeError"
    ELSE IF ~d.hasLayers THEN "KeyError"
    ELSE IF ~d.hasComponents THEN "KeyError"
    ELSE IF \E i \in 1..Len(d.components) :
                ~d.components[i].hasFolder \/ ~d.components[i].hasLayer
         THEN "KeyError"
    ELSE "none"

\* The exception raised by lines 10-18 on a document, or "none".
LoadError(d) ==
    IF d.kind = "missing" THEN "FileNotFoundError"
    ELSE IF d.kind = "malformed" THEN "JSONDecodeError"
    ELSE IF ~d.hasLayers THEN "KeyError"
    ELSE IF \E i \in 1..Len(d.layers) : ~d.layers[i].hasAllowed THEN "KeyError"
    ELSE IF ~d.hasComponents THEN "KeyError"
    ELSE IF \E i \in 1..Len(d.components) :
                ~d.components[i].hasFolder \/ ~d.components[i].hasLayer
         THEN "KeyError"
    ELSE "none"

\* { layer_name: data["allowed"] for layer_name, data in ...items() }
RECURSIVE BuildLayersRules(_, _)
BuildLayersRules(acc, entries) ==
    IF entries = <<>> THEN acc
    ELSE BuildLayersRules(DictSet(acc, Head(entries).name, Head(entries).allowed),
                          Tail(entries))

\* { comp["folder"]: comp["layer"] for comp in ...["components"] }
RECURSIVE BuildCompMap(_, _)
BuildCompMap(acc, comps) ==
    IF comps = <<>> THEN acc
    ELSE BuildCompMap(DictSet(acc, Head(comps).folder, Head(comps).layer),
                      Tail(comps))

-----------------------------------------------------------------------------
(* layer_of, analyzer.py lines 20-25 *)

\* fnmatch of one path segment against one pattern segment
SegMatch(seg, p) == p = "*" \/ p = seg

\* pathlib.PurePath.match with a relative pattern: matched from the right
PathMatch(path, pattern) ==
    /\ Len(pattern) <= Len(path)
    /\ \A i \in 1..Len(pattern) :
          SegMatch(path[Len(path) - Len(pattern) + i], pattern[i])

RECURSIVE layer_of_from(_, _, _)
layer_of_from(cm, path, i) ==
    IF i > Len(cm) THEN "Unknown"
    ELSE IF PathMatch(path, cm[i][1]) THEN cm[i][2]
    ELSE layer_of_from(cm, path, i + 1)

layer_of(cm, path) == layer_of_from(cm, path, 1)

-----------------------------------------------------------------------------
(* Import extraction, analyzer.py lines 38-45 *)

Module(body) == [type |-> "Module", names |-> <<>>, module |-> <<>>, body |-> body]

\* as Walk, with a stack: a node's children are visited before its siblings
RECURSIVE Walk_DepthFirst(_)
Walk_DepthFirst(todo) ==
    IF todo = <<>> THEN <<>>
    ELSE <<Head(todo)>> \o Walk_DepthFirst(Head(todo).body \o Tail(todo))

\* ast.walk: a queue; pop the left node, append its children on the right
RECURSIVE Walk(_)
Walk(todo) ==
    IF todo = <<>> THEN <<>>
    ELSE <<Head(todo)>> \o Walk(Tail(todo) \o Head(todo).body)

\* the names one visited node appends to imports
NodeImports(node) ==
    IF node.type = "Import"
    THEN [i \in 1..Len(node.names) |-> Head(node.names[i])]
    ELSE IF node.type = "ImportFrom" /\ node.module # <<>>
    THEN <<Last(node.module)>>
    ELSE <<>>

\* the first occurrence of every element of s
RECURSIVE Dedup(_)
Dedup(s) ==
    IF s = <<>> THEN <<>>
    ELSE LET front == Dedup(Front(s))
         IN  IF Last(s) \in Range(front) THEN front ELSE Append(front, Last(s))

\* as ExtractImports, collecting each name once
ExtractImports_Dedup(body) ==
    LET nodes == Walk(<<Module(body)>>)
    IN  Dedup(Concat([i \in 1..Len(nodes) |-> NodeImports(nodes[i])]))

ExtractImports(body) ==
    LET nodes == Walk(<<Module(body)>>)
    IN  Concat([i \in 1..Len(nodes) |-> NodeImports(nodes[i])])

-----------------------------------------------------------------------------
(* Edge emission, analyzer.py lines 47-52 *)

PyName(path) == Last(path)

WithName(path, name) == Append(Front(path), name)

\* as IsViolation, never flagging an import within one layer
IsViolation_SameLayerAllowed(rules, src_layer, tgt_layer) ==
    /\ tgt_layer # src_layer
    /\ tgt_layer \notin Range(DictGet(rules, src_layer, <<>>))

\* as IsViolation, checking only the source layers the model declares
IsViolation_DeclaredOnly(rules, src_layer, tgt_layer) ==
    /\ DictHas(rules, src_layer)
    /\ tgt_layer \notin Range(DictGet(rules, src_layer, <<>>))

IsViolation(rules, src_layer, tgt_layer) ==
    tgt_layer \notin Range(DictGet(rules, src_layer, <<>>))

Edge(cm, path, imp) ==
    <<layer_of(cm, path), layer_of(cm, WithName(path, imp \o ".py")),
      PyName(path), imp>>

EdgesOf(cm, path, imps) == [i \in 1..Len(imps) |-> Edge(cm, path, imps[i])]

ViolationsOf(rules, edges) ==
    SelectSeq(edges, LAMBDA e : IsViolation(rules, e[1], e[2]))

-----------------------------------------------------------------------------
(* Inputs: model documents *)

LayerEntry(name, allowed) ==
    [name |-> name, hasAllowed |-> TRUE, allowed |-> allowed]

Component(folder, layer) ==
    [hasFolder |-> TRUE, folder |-> folder, hasLayer |-> TRUE, layer |-> layer]

JsonDoc(layers, comps) ==
    [kind |-> "json", hasLayers |-> TRUE, layers |-> layers,
     hasComponents |-> TRUE, components |-> comps]

\* Scenario A/B of the specification: UI -> Domain -> Infra
ScenarioLayers ==
    <<LayerEntry("UI", <<"Domain">>), LayerEntry("Domain", <<"Infra">>),
      LayerEntry("Infra", <<>>)>>

\* Domain and Unknown are not declared; Unknown is allowed from UI
SparseLayers ==
    <<LayerEntry("UI", <<"Domain", "Unknown">>), LayerEntry("Infra", <<"UI">>)>>

LayerTables == {ScenarioLayers, SparseLayers}

FileRuleFirst ==
    <<Component(<<"helper.py">>, "Infra"), Component(<<"ui", "*">>, "UI"),
      Component(<<"dom", "*">>, "Domain")>>

FolderRuleFirst ==
    <<Component(<<"ui", "*">>, "UI"), Component(<<"helper.py">>, "Infra"),
      Component(<<"*", "*">>, "Domain")>>

SameFolderTwice ==
    <<Component(<<"ui", "*">>, "UI"), Component(<<"ui", "*">>, "Domain")>>

\* rules that name files: a sibling module of view.py matches no rule
FileRulesOnly ==
    <<Component(<<"view.py">>, "UI"), Component(<<"service.py">>, "Domain")>>

ComponentLists ==
    {<<>>, FileRuleFirst, FolderRuleFirst, SameFolderTwice, FileRulesOnly}

GoodDocs == {JsonDoc(l, c) : l \in LayerTables, c \in ComponentLists}

NoDoc(kind) ==
    [kind |-> kind, hasLayers |-> FALSE, layers |-> <<>>,
     hasComponents |-> FALSE, components |-> <<>>]

BadDocs ==
    { NoDoc("missing"), NoDoc("malformed"),
      [JsonDoc(<<>>, FileRuleFirst) EXCEPT !.hasLayers = FALSE],
      JsonDoc(<<LayerEntry("UI", <<"Domain">>),
                [name |-> "Domain", hasAllowed |-> FALSE, allowed |-> <<>>]>>,
              FileRuleFirst),
      [JsonDoc(ScenarioLayers, <<>>) EXCEPT !.hasComponents = FALSE],
      JsonDoc(ScenarioLayers,
              <<Component(<<"ui", "*">>, "UI"),
                [hasFolder |-> FALSE, folder |-> <<>>, hasLayer |-> TRUE,
                 layer |-> "Domain"]>>),
      JsonDoc(ScenarioLayers,
              <<[hasFolder |-> TRUE, folder |-> <<"ui", "*">>, hasLayer |-> FALSE,
                 layer |-> ""]>>) }

Docs == GoodDocs \cup BadDocs

-----------------------------------------------------------------------------
(* Inputs: source files *)

Import(names) ==
    [type |-> "Import", names |-> names, module |-> <<>>, body |-> <<>>]

\* module is <<>> for "from . import y" (node.module is None)
ImportFrom(module) ==
    [type |-> "ImportFrom", names |-> <<>>, module |-> module, body |-> <<>>]

\* a compound statement (def, class, if, ...) or one of its clauses
Block(body) ==
    [type |-> "Block", names |-> <<>>, module |-> <<>>, body |-> body]

Parsed(body) == [parses |-> TRUE, body |-> body]

Unparsable == [parses |-> FALSE, body |-> <<>>]

FileContents ==
    { Unparsable,
      Parsed(<<>>),
      Parsed(<<Import(<<<<"helper">>>>)>>),
      Parsed(<<Import(<<<<"helper">>>>), Import(<<<<"helper">>>>)>>),
      Parsed(<<Block(<<Import(<<<<"x">>>>)>>), ImportFrom(<<"pkg", "helper">>)>>),
      Parsed(<<Import(<<<<"x", "y">>, <<"helper">>>>), ImportFrom(<<>>)>>) }

EnginePath == <<"analyzer.py">>

FilePaths ==
    {EnginePath, <<"main.py">>, <<"ui", "view.py">>, <<"dom", "service.py">>,
     <<"dom", "analyzer.py">>}

Files == [path : FilePaths, content : FileContents]

Universes ==
    {u \in SeqsUpTo(Files, MaxFiles) :
        \A i, j \in 1..Len(u) : i # j => u[i].path # u[j].path}

-----------------------------------------------------------------------------
(* The script *)

Init ==
    /\ doc \in Docs
    /\ universe \in Universes
    /\ layers_rules = <<>>
    /\ comp_map = <<>>
    /\ idx = 1
    /\ deps = <<>>
    /\ violations = <<>>
    /\ exit_code = 0
    /\ stdout = <<>>
    /\ written = <<>>
    /\ pc = "load"
    /\ error = "none"
    /\ status = "running"
    /\ imports = <<>>
    /\ qpath = <<>>
    /\ qlayer = ""
    /\ tree = <<>>

\* an exception nobody catches: traceback, exit status 1
Raise(e) ==
    /\ pc' = "crashed"
    /\ error' = e
    /\ status' = "failure"

\* lines 10-18
LoadModel ==
    /\ pc = "load"
    /\ LoadError(doc) = "none"
    /\ layers_rules' = BuildLayersRules(<<>>, doc.layers)
    /\ comp_map' = BuildCompMap(<<>>, doc.components)
    /\ pc' = "scan"
    /\ UNCHANGED <<doc, universe, idx, deps, violations, exit_code, stdout,
                   written, error, status, imports, harnessVars>>

\* lines 10-18 raising
LoadModelFail ==
    /\ pc = "load"
    /\ LoadError(doc) # "none"
    /\ Raise(LoadError(doc))
    /\ UNCHANGED <<doc, universe, layers_rules, comp_map, idx, deps, violations,
                   exit_code, stdout, written, imports, harnessVars>>

InLoop == pc = "scan" /\ idx <= Len(universe)

\* lines 32-33
SkipSelf ==
    /\ InLoop
    /\ PyName(universe[idx].path) = "analyzer.py"
    /\ idx' = idx + 1
    /\ UNCHANGED <<doc, universe, layers_rules, comp_map, deps, violations,
                   exit_code, stdout, written, pc, error, status, imports,
                   harnessVars>>

\* as ParseFail, with the parse in a try block whose handler continues
ParseFail_SkipFile ==
    /\ InLoop
    /\ PyName(universe[idx].path) # "analyzer.py"
    /\ ~universe[idx].content.parses
    /\ idx' = idx + 1
    /\ UNCHANGED <<doc, universe, layers_rules, comp_map, deps, violations,
                   exit_code, stdout, written, pc, error, status, imports,
                   harnessVars>>

\* line 36 raising SyntaxError
ParseFail ==
    /\ InLoop
    /\ PyName(universe[idx].path) # "analyzer.py"
    /\ ~universe[idx].content.parses
    /\ Raise("SyntaxError")
    /\ UNCHANGED <<doc, universe, layers_rules, comp_map, idx, deps, violations,
                   exit_code, stdout, written, imports, harnessVars>>

\* lines 35-52 for one file
ScanFile ==
    /\ InLoop
    /\ PyName(universe[idx].path) # "analyzer.py"
    /\ universe[idx].content.parses
    /\ LET py    == universe[idx].path
           imps  == ExtractImports(universe[idx].content.body)
           edges == EdgesOf(comp_map, py, imps)
       IN  /\ imports' = imps
           /\ deps' = deps \o edges
           /\ violations' = violations \o ViolationsOf(layers_rules, edges)
    /\ idx' = idx + 1
    /\ UNCHANGED <<doc, universe, layers_rules, comp_map, exit_code, stdout,
                   written, pc, error, status, harnessVars>>

\* as Console, without line 61
Console_ExitCodeStaysZero ==
    /\ pc = "scan"
    /\ idx > Len(universe)
    /\ stdout' = stdout \o <<<<"Analyzed", Len(deps)>>>>
                   \o (IF violations # <<>>
                       THEN <<<<"FAIL", Len(violations)>>>>
                            \o [i \in 1..Len(violations) |-> <<"FAIL:", i>>]
                       ELSE <<<<"PASS", 0>>>>)
    /\ exit_code' = 0
    /\ pc' = "junit"
    /\ UNCHANGED <<doc, universe, layers_rules, comp_map, idx, deps, violations,
                   written, error, status, imports, harnessVars>>

\* lines 55-63
Console ==
    /\ pc = "scan"
    /\ idx > Len(universe)
    /\ stdout' = stdout \o <<<<"Analyzed", Len(deps)>>>>
                   \o (IF violations # <<>>
                       THEN <<<<"FAIL", Len(violations)>>>>
                            \o [i \in 1..Len(violations) |-> <<"FAIL:", i>>]
                       ELSE <<<<"PASS", 0>>>>)
    /\ exit_code' = IF violations # <<>> THEN 1 ELSE 0
    /\ pc' = "junit"
    /\ UNCHANGED <<doc, universe, layers_rules, comp_map, idx, deps, violations,
                   written, error, status, imports, harnessVars>>

\* lines 66-82
JUnit ==
    /\ pc = "junit"
    /\ written' = Append(written,
          <<"tests-results/archguard.xml",
            <<IF deps # <<>> THEN Len(deps) ELSE 1, Len(violations)>>,
            [i \in 1..Len(deps) |-> deps[i] \in Range(violations)]>>)
    /\ pc' = "html"
    /\ UNCHANGED <<doc, universe, layers_rules, comp_map, idx, deps, violations,
                   exit_code, stdout, error, status, imports, harnessVars>>

\* lines 66 and 82 raising OSError
JUnitFail ==
    /\ pc = "junit"
    /\ Raise("OSError")
    /\ UNCHANGED <<doc, universe, layers_rules, comp_map, idx, deps, violations,
                   exit_code, stdout, written, imports, harnessVars>>

\* lines 85-160
Html ==
    /\ pc = "html"
    /\ written' = Append(written,
          <<"archguard_report.html",
            <<Len(violations), Len(deps)>>,
            [i \in 1..Len(deps) |-> deps[i] \in Range(violations)]>>)
    /\ pc' = "exit"
    /\ UNCHANGED <<doc, universe, layers_rules, comp_map, idx, deps, violations,
                   exit_code, stdout, error, status, imports, harnessVars>>

\* lines 159-160 raising OSError
HtmlFail ==
    /\ pc = "html"
    /\ Raise("OSError")
    /\ UNCHANGED <<doc, universe, layers_rules, comp_map, idx, deps, violations,
                   exit_code, stdout, written, imports, harnessVars>>

\* line 162
Exit ==
    /\ pc = "exit"
    /\ status' = IF exit_code = 0 THEN "success" ELSE "failure"
    /\ pc' = "exited"
    /\ UNCHANGED <<doc, universe, layers_rules, comp_map, idx, deps, violations,
                   exit_code, stdout, written, error, imports, harnessVars>>

Next ==
    \/ LoadModel
    \/ LoadModelFail
    \/ SkipSelf
    \/ ParseFail
    \/ ScanFile
    \/ Console
    \/ JUnit
    \/ JUnitFail
    \/ Html
    \/ HtmlFail
    \/ Exit

Spec == Init /\ [][Next]_vars

-----------------------------------------------------------------------------
(* layer_of on its own: every rule list up to MaxRules rules, every path   *)

Patterns == {<<"ui", "*">>, <<"*">>, <<"helper.py">>}

Rules == {Component(p, l) : p \in Patterns, l \in {"UI", "Domain"}}

ClassifyDocs == {JsonDoc(ScenarioLayers, c) : c \in SeqsUpTo(Rules, MaxRules)}

QueryPaths ==
    {<<"ui", "view.py">>, <<"ui", "helper.py">>, <<"dom", "helper.py">>,
     <<"main.py">>}

InitClassify ==
    /\ doc \in ClassifyDocs
    /\ universe = <<>>
    /\ layers_rules = <<>>
    /\ comp_map = <<>>
    /\ idx = 1
    /\ deps = <<>>
    /\ violations = <<>>
    /\ exit_code = 0
    /\ stdout = <<>>
    /\ written = <<>>
    /\ pc = "load"
    /\ error = "none"
    /\ status = "running"
    /\ imports = <<>>
    /\ qpath = <<>>
    /\ qlayer = ""
    /\ tree = <<>>

\* one call of layer_of, lines 20-25
Classify ==
    /\ pc = "scan"
    /\ \E p \in QueryPaths :
          /\ qpath' = p
          /\ qlayer' = layer_of(comp_map, p)
    /\ UNCHANGED <<doc, universe, layers_rules, comp_map, idx, deps, violations,
                   exit_code, stdout, written, pc, error, status, imports, tree>>

NextClassify ==
    \/ LoadModel
    \/ Classify

SpecClassify == InitClassify /\ [][NextClassify]_vars

-----------------------------------------------------------------------------
(* The extractor on its own: every generated file                          *)

Leaves == {Import(<<<<"a">>>>), ImportFrom(<<"p", "b">>)}

\* a statement inside k nested compound statements
RECURSIVE Wrap(_, _)
Wrap(stmt, k) == IF k = 0 THEN stmt ELSE Block(<<Wrap(stmt, k - 1)>>)

Wrapped(d) == {Wrap(l, k) : l \in Leaves, k \in 0..d}

\* single statements nested up to MaxDepth deep, and compound statements
\* whose body holds two statements
Stmts ==
    Wrapped(MaxDepth)
        \cup {Block(<<s1, s2>>) : s1 \in Wrapped(MaxDepth - 1),
                                  s2 \in Wrapped(MaxDepth - 1)}

Trees == SeqsUpTo(Stmts, MaxStmts)

InitExtract ==
    /\ tree \in Trees
    /\ doc = NoDoc("missing")
    /\ universe = <<>>
    /\ layers_rules = <<>>
    /\ comp_map = <<>>
    /\ idx = 1
    /\ deps = <<>>
    /\ violations = <<>>
    /\ exit_code = 0
    /\ stdout = <<>>
    /\ written = <<>>
    /\ pc = "parse"
    /\ error = "none"
    /\ status = "running"
    /\ imports = <<>>
    /\ qpath = <<>>
    /\ qlayer = ""

\* lines 38-45 on one parsed file
ExtractStep ==
    /\ pc = "parse"
    /\ imports' = ExtractImports(tree)
    /\ pc' = "extracted"
    /\ UNCHANGED <<doc, universe, layers_rules, comp_map, idx, deps, violations,
                   exit_code, stdout, written, error, status, harnessVars>>

NextExtract == ExtractStep

SpecExtract == InitExtract /\ [][NextExtract]_vars

-----------------------------------------------------------------------------
(* What the model document declares, read off the document itself          *)

Declared(d, layer) == \E i \in 1..Len(d.layers) : d.layers[i].name = layer

DeclaredAllowed(d, layer) ==
    UNION {Range(d.layers[i].allowed) :
              i \in {j \in 1..Len(d.layers) : d.layers[j].name = layer}}

\* the edge's target layer is outside the allow-list of its source layer
NotAllowed(e) == e[2] \notin DeclaredAllowed(doc, e[1])

Reported(e) == e \in Range(violations)

-----------------------------------------------------------------------------
(* C1 *)

\* C1: at every point of a run, and so after a complete run, an edge of
\* deps is in violations if and only if its target layer is not in the
\* allow-list the model document gives its source layer, and every entry
\* of violations has a target layer outside that allow-list.
C1_ViolationIffNotAllowed ==
    /\ \A i \in 1..Len(deps) : Reported(deps[i]) <=> NotAllowed(deps[i])
    /\ \A i \in 1..Len(violations) : NotAllowed(violations[i])

\* a complete run that recorded both a violating and a conformant edge
C1_Witness ==
    /\ pc = "exited"
    /\ \E i, j \in 1..Len(deps) :
          /\ Reported(deps[i]) /\ NotAllowed(deps[i])
          /\ ~Reported(deps[j]) /\ ~NotAllowed(deps[j])

-----------------------------------------------------------------------------
(* C2 *)

\* C2: a run that reaches sys.exit(exit_code) exits with success if and
\* only if violations is empty and with failure if it is not, and the
\* report-writing steps between the console output and the exit leave
\* exit_code as the console step set it.
C2_ExitStatusIffNoViolations ==
    /\ [](pc = "exited" =>
            /\ (status = "success" <=> violations = <<>>)
            /\ (status = "failure" <=> violations # <<>>))
    /\ [][(pc \in {"junit", "html"}) => (exit_code' = exit_code)]_vars

\* a run with violations that wrote both reports and exited with failure
C2_Witness ==
    /\ pc = "exited"
    /\ violations # <<>>
    /\ Len(written) = 2
    /\ status = "failure"

-----------------------------------------------------------------------------
(* C3 *)

Min(S) == CHOOSE x \in S : \A y \in S : x <= y

\* the layer of the earliest-declared rule of the document that matches
FirstMatchLayer(comps, path) ==
    LET M == {i \in 1..Len(comps) : PathMatch(path, comps[i].folder)}
    IN  IF M = {} THEN "Unknown" ELSE comps[Min(M)].layer

\* C3: for every rule list of the model document and every path, layer_of
\* returns the layer of the earliest-declared rule whose pattern matches
\* the path, and Unknown when no rule matches.
C3_FirstDeclaredRuleWins ==
    qpath # <<>> => qlayer = FirstMatchLayer(doc.components, qpath)

-----------------------------------------------------------------------------
(* C4 *)

\* the scan loop stands at a file it will hand to ast.parse
AtParsedFile ==
    /\ InLoop
    /\ PyName(universe[idx].path) # "analyzer.py"

\* C4: when the loop stands at a file that does not parse, the step it
\* takes does not abort the run: the loop moves on to the next file and
\* the failing file adds no edge and no violation.
C4_ParseFailureDoesNotAbort ==
    [][(AtParsedFile /\ ~universe[idx].content.parses) =>
          /\ pc' = "scan"
          /\ idx' = idx + 1
          /\ deps' = deps
          /\ violations' = violations
      ]_vars

-----------------------------------------------------------------------------
(* C5 *)

\* some file of the universe was handed to ast.parse and did not parse
SomeFileFailedToParse ==
    \E i \in 1..Len(universe) :
        /\ ~universe[i].content.parses
        /\ PyName(universe[i].path) # "analyzer.py"
        /\ \/ i < idx
           \/ i = idx /\ error = "SyntaxError"

PassPrinted == \E i \in 1..Len(stdout) : stdout[i][1] = "PASS"

\* C5: once a file has failed to parse, the run has not printed the PASS
\* line and does not print it, and its exit status is never success.
C5_ParseFailureNeverPasses ==
    SomeFileFailedToParse => ~PassPrinted /\ status # "success"

\* a file failed to parse after another file was scanned without violation
C5_Witness ==
    /\ SomeFileFailedToParse
    /\ idx > 1
    /\ deps # <<>>
    /\ violations = <<>>
    /\ status = "failure"

-----------------------------------------------------------------------------
(* C6 *)

\* the document is missing, malformed, or lacks a required section
DocLacksSection(d) ==
    \/ d.kind \in {"missing", "malformed"}
    \/ ~d.hasLayers
    \/ \E i \in 1..Len(d.layers) : ~d.layers[i].hasAllowed
    \/ ~d.hasComponents
    \/ \E i \in 1..Len(d.components) : ~d.components[i].hasFolder
    \/ \E i \in 1..Len(d.components) : ~d.components[i].hasLayer

\* C6: with a model document that is missing, malformed or lacks a
\* required section, the run never enters the scan loop, never records an
\* edge or a violation, never prints and never writes a report.
C6_BadModelAbortsBeforeScan ==
    DocLacksSection(doc) =>
        /\ pc \in {"load", "crashed"}
        /\ idx = 1
        /\ imports = <<>>
        /\ deps = <<>>
        /\ violations = <<>>
        /\ stdout = <<>>
        /\ written = <<>>
        /\ status # "success"

\* the run was aborted by a document with a layer that has no allowed list,
\* with a file waiting that would have given an edge
C6_Witness ==
    /\ pc = "crashed"
    /\ error = "KeyError"
    /\ doc.kind = "json" /\ doc.hasLayers
    /\ \E i \in 1..Len(doc.layers) : ~doc.layers[i].hasAllowed
    /\ Len(universe) > 0
    /\ universe[1].content.parses
    /\ universe[1].content.body # <<>>
    /\ PyName(universe[1].path) # "analyzer.py"

-----------------------------------------------------------------------------
(* C7 *)

\* the number of import references in a statement list, read in textual
\* order, that name module m
RECURSIVE RefCount(_, _)
RefCount(body, m) ==
    IF body = <<>> THEN 0
    ELSE LET s == Head(body)
             here == IF s.type = "Block" THEN RefCount(s.body, m)
                     ELSE IF s.type = "Import"
                     THEN Cardinality({i \in 1..Len(s.names) : Head(s.names[i]) = m})
                     ELSE IF s.type = "ImportFrom" /\ s.module # <<>>
                                /\ Last(s.module) = m
                     THEN 1
                     ELSE 0
         IN  here + RefCount(Tail(body), m)

ModuleNames == {"helper", "x", "y", "pkg"}

\* C7: the step that scans a file appends, for every module name, as many
\* edges as the file has import references to that name, all with the same
\* content, and as many violations as edges when the edge is not allowed
\* and none when it is.
C7_OneEdgePerImportReference ==
    [][AtParsedFile /\ idx' = idx + 1 =>
          LET body  == universe[idx].content.body
              new   == SubSeq(deps', Len(deps) + 1, Len(deps'))
              newV  == SubSeq(violations', Len(violations) + 1, Len(violations'))
              of(m) == {i \in 1..Len(new) : new[i][4] = m}
          IN  /\ \A i \in 1..Len(new) : new[i][4] \in ModuleNames
              /\ \A m \in ModuleNames :
                    /\ Cardinality(of(m)) = RefCount(body, m)
                    /\ \A i, j \in of(m) : new[i] = new[j]
                    /\ \A i \in of(m) :
                          Count(newV, new[i]) =
                              IF NotAllowed(new[i]) THEN RefCount(body, m) ELSE 0
      ]_vars

\* a file with two imports of one module gave two equal edges and two
\* equal violations
C7_Witness ==
    /\ Len(deps) = 2
    /\ deps[1] = deps[2]
    /\ violations = deps

-----------------------------------------------------------------------------
(* C8 *)

\* the names of a statement list in the order of the text
RECURSIVE TextualNames(_)
TextualNames(body) ==
    Concat([i \in 1..Len(body) |->
               IF body[i].type = "Block" THEN TextualNames(body[i].body)
               ELSE NodeImports(body[i])])

\* the names of the import statements nested d compound statements deep,
\* in the order of the text
RECURSIVE NamesAtDepth(_, _)
NamesAtDepth(body, d) ==
    Concat([i \in 1..Len(body) |->
               IF body[i].type = "Block"
               THEN IF d > 0 THEN NamesAtDepth(body[i].body, d - 1) ELSE <<>>
               ELSE IF d = 0 THEN NodeImports(body[i]) ELSE <<>>])

RECURSIVE Height(_)
Height(body) ==
    LET hs == {IF body[i].type = "Block" THEN 1 + Height(body[i].body) ELSE 0 :
                  i \in 1..Len(body)}
    IN  IF hs = {} THEN 0 ELSE CHOOSE h \in hs : \A g \in hs : g <= h

LevelOrderNames(body) ==
    Concat([k \in 1..(Height(body) + 1) |-> NamesAtDepth(body, k - 1)])

ImportDepths(body) ==
    {d \in 0..Height(body) : NamesAtDepth(body, d) # <<>>}

\* C8 as claimed: the extracted names are in the order of the text.
C8_TextualOrder ==
    pc = "extracted" => imports = TextualNames(tree)

\* C8 as amended: the extracted names are ordered by nesting depth, less
\* deeply nested import statements first, and in the order of the text
\* among import statements of one depth; when all import statements of the
\* file are at one depth the order is the order of the text.
C8_LevelOrder ==
    pc = "extracted" =>
        /\ imports = LevelOrderNames(tree)
        /\ Cardinality(ImportDepths(tree)) <= 1 => imports = TextualNames(tree)

\* an import nested in a compound statement, followed in the text by a
\* top-level import, came out after it
C8_Witness ==
    /\ pc = "extracted"
    /\ Len(tree) = 2
    /\ tree[1].type = "Block"
    /\ tree[2].type # "Block"
    /\ Len(imports) = 2
    /\ imports # TextualNames(tree)

-----------------------------------------------------------------------------
(* C9 *)

\* C9: whenever the loop moves past a file other than the engine's own
\* file, it has scanned that file and appended one edge per import
\* extracted from it.
C9_OnlyEngineFileSkipped ==
    [][(InLoop /\ idx' = idx + 1 /\ universe[idx].path # EnginePath) =>
          LET imps == ExtractImports(universe[idx].content.body)
          IN  /\ imports' = imps
              /\ Len(deps') = Len(deps) + Len(imps)
      ]_vars

-----------------------------------------------------------------------------
(* C10 *)

\* C10: every edge whose source layer the model document does not declare
\* is a violation whatever its target layer, and an edge whose target
\* layer is Unknown is a violation unless the document lists Unknown in
\* the allow-list of the edge's source layer.
C10_UndeclaredLayerAllowsNothing ==
    \A i \in 1..Len(deps) :
        LET e == deps[i]
        IN  /\ ~Declared(doc, e[1]) => Reported(e)
            /\ e[2] = "Unknown" =>
                  (Reported(e) <=> "Unknown" \notin DeclaredAllowed(doc, e[1]))

\* a run that recorded a violating edge from Unknown, which the document
\* does not declare, and a conformant edge into Unknown from a layer whose
\* allow-list names Unknown
C10_Witness ==
    /\ ~Declared(doc, "Unknown")
    /\ \E i, j \in 1..Len(deps) :
          /\ deps[i][1] = "Unknown" /\ Reported(deps[i])
          /\ deps[j][2] = "Unknown" /\ Declared(doc, deps[j][1])
          /\ ~Reported(deps[j])

====
